---- MODULE Spec2Model ----
(***************************************************************************)
(* Model of tools/anonymize_gedcom.py: the GedcomAnonymizer engine          *)
(* (anonymize_name, anonymize_place, anonymize_date, anonymize_line) and    *)
(* the anonymize_file driver.                                               *)
(*                                                                          *)
(* A Python str is modelled as a sequence of one-character strings, so that *)
(* the regular expressions, slicing, strip/rstrip/split and f-string        *)
(* concatenation of the source are computed character by character.  The    *)
(* byte-order mark U+FEFF is the single character BOM.                      *)
(***************************************************************************)
EXTENDS Integers, Sequences, FiniteSets, TLC

VARIABLES
    \* GedcomAnonymizer fields (src lines 40-45)
    name_map, place_map, keep_dates, keep_places, person_counter, place_counter,
    \* the last anonymize_line / anonymize_date call: its arguments and effects
    line, result, warning,
    \* history: the distinct NAME / PLAC values in order of first occurrence
    names_seen, places_seen,
    \* anonymize_file locals and the files it reads and writes
    input_file, lines, i, anonymized_lines, passed, output_file, pc, run, first_output

vars == <<name_map, place_map, keep_dates, keep_places, person_counter, place_counter,
          line, result, warning, names_seen, places_seen,
          input_file, lines, i, anonymized_lines, passed, output_file, pc, run,
          first_output>>

engine_vars == <<name_map, place_map, keep_dates, keep_places, person_counter,
                 place_counter>>

call_vars == <<line, result, warning>>

file_vars == <<input_file, lines, i, anonymized_lines, passed, output_file, pc, run,
               first_output>>

-----------------------------------------------------------------------------
(* Characters and character classes of Python's re module                  *)

BOM == "BOM"

Digits == {"0", "1", "2", "3", "4", "5", "6", "7", "8", "9"}

Upper == {"A", "B", "C", "D", "E", "F", "G", "H", "I", "J", "K", "L", "M",
          "N", "O", "P", "Q", "R", "S", "T", "U", "V", "W", "X", "Y", "Z"}

Lower == {"a", "b", "c", "d", "e", "f", "g", "h", "i", "j", "k", "l", "m",
          "n", "o", "p", "q", "r", "s", "t", "u", "v", "w", "x", "y", "z"}

Letters == Upper \cup Lower

\* \w : letters, digits and the underscore
WordChars == Letters \cup Digits \cup {"_"}

\* \s restricted to the white space a line of a text file can hold once
\* readlines() has split it and rstrip('\n\r') has removed its ending
Space == {" ", "\t", "\f"}

Punct == {"@", "/", ",", "[", "]", "-", "."}

\* every character of the model; "." of a regular expression is any of them
\* (no line holds "\n")
Chars == WordChars \cup Space \cup Punct \cup {BOM}

\* [^@]
NotAt == Chars \ {"@"}

Min(S) == CHOOSE x \in S : \A y \in S : x <= y

\* s[a:b] with Python's 0-based half-open bounds clipped to the string
Slice(s, a, b) == SubSeq(s, a + 1, IF b < Len(s) THEN b ELSE Len(s))

\* the index after the longest run of characters of C that starts at index p
\* (a greedy X+ or X* of the regular expression engine)
SpanEnd(s, p, C) ==
    LET stop == {j \in p..Len(s) : s[j] \notin C}
    IN  IF stop = {} THEN Len(s) + 1 ELSE Min(stop)

\* s[a..b] exists and consists of characters of C
AllIn(s, a, b, C) == b <= Len(s) /\ \A k \in a..b : s[k] \in C

\* s starts with the string t
StartsWith(s, t) == Len(t) <= Len(s) /\ SubSeq(s, 1, Len(t)) = t

\* str.strip(): leading and trailing white space removed (BOM is not white space)
strip(s) ==
    LET keep == {j \in 1..Len(s) : s[j] \notin Space}
    IN  IF keep = {} THEN << >>
        ELSE SubSeq(s, Min(keep), CHOOSE j \in keep : \A k \in keep : k <= j)

\* str.rstrip('\n\r')
rstrip_nl(s) ==
    LET keep == {j \in 1..Len(s) : s[j] \notin {"\n", "\r"}}
    IN  IF keep = {} THEN << >>
        ELSE SubSeq(s, 1, CHOOSE j \in keep : \A k \in keep : k <= j)

\* str.split()[0] of a string that holds a character other than white space
split_first(s) ==
    LET a == SpanEnd(s, 1, Space)
    IN  SubSeq(s, a, SpanEnd(s, a, Chars \ Space) - 1)

\* str(n) for n >= 0: the decimal digits of n
DigitChar(d) ==
    CASE d = 0 -> "0" [] d = 1 -> "1" [] d = 2 -> "2" [] d = 3 -> "3" [] d = 4 -> "4"
      [] d = 5 -> "5" [] d = 6 -> "6" [] d = 7 -> "7" [] d = 8 -> "8" [] d = 9 -> "9"

RECURSIVE str(_)
str(n) == IF n < 10 THEN <<DigitChar(n)>> ELSE str(n \div 10) \o <<DigitChar(n % 10)>>

-----------------------------------------------------------------------------
(* String literals of the source                                           *)

PersonPrefix == <<"P", "e", "r", "s", "o", "n", " ">>
PlacePrefix == <<"P", "l", "a", "c", "e", " ">>
FullDate == <<"1", " ", "J", "A", "N", " ", "1", "9", "0", "0">>
Year1900 == <<"1", "9", "0", "0">>
SpaceYear1900 == <<" ", "1", "9", "0", "0">>
AnonText == <<"[", "a", "n", "o", "n", "y", "m", "i", "z", "e", "d", " ",
              "t", "e", "x", "t", "]">>
Anon == <<"[", "a", "n", "o", "n", "y", "m", "i", "z", "e", "d", "]">>

ABT == <<"A", "B", "T">>
BEF == <<"B", "E", "F">>
AFT == <<"A", "F", "T">>
CAL == <<"C", "A", "L">>
EST == <<"E", "S", "T">>
Qualifiers == {ABT, BEF, AFT, CAL, EST}

NAME == <<"N", "A", "M", "E">>
PLAC == <<"P", "L", "A", "C">>
DATE == <<"D", "A", "T", "E">>
NOTE == <<"N", "O", "T", "E">>
TEXT == <<"T", "E", "X", "T">>
CONT == <<"C", "O", "N", "T">>
CONC == <<"C", "O", "N", "C">>
GIVN == <<"G", "I", "V", "N">>
SURN == <<"S", "U", "R", "N">>
NPFX == <<"N", "P", "F", "X">>
NSFX == <<"N", "S", "F", "X">>
NICK == <<"N", "I", "C", "K">>
ADDR == <<"A", "D", "D", "R">>
ADR1 == <<"A", "D", "R", "1">>
ADR2 == <<"A", "D", "R", "2">>
CITY == <<"C", "I", "T", "Y">>
STAE == <<"S", "T", "A", "E">>
POST == <<"P", "O", "S", "T">>
CTRY == <<"C", "T", "R", "Y">>
PHON == <<"P", "H", "O", "N">>
EMAIL == <<"E", "M", "A", "I", "L">>
WWW == <<"W", "W", "W">>
FAX == <<"F", "A", "X">>
TITL == <<"T", "I", "T", "L">>

TextTags == {NOTE, TEXT, CONT, CONC}
NamePartTags == {GIVN, SURN, NPFX, NSFX, NICK}
AddressTags == {ADDR, ADR1, ADR2, CITY, STAE, POST, CTRY}
ContactTags == {PHON, EMAIL, WWW, FAX}

\* the level the TITL branch compares with, as text
TitleLevel == <<"1">>

\* line_number < 5 decides whether the diagnostic is printed
WarnLines == 5

\* line[:50] is the preview the diagnostic shows
PreviewLen == 50

NoWarning == << >>

-----------------------------------------------------------------------------
(* GedcomAnonymizer: the engine.  An engine value `self` is the record of   *)
(* its six fields; a method is an operator from (self, arguments) to the    *)
(* record of the engine after the call and the value returned.              *)

\* a dict with key k set to v
Put(m, k, v) == [x \in DOMAIN m \cup {k} |-> IF x = k THEN v ELSE m[x]]

EmptyMap == << >>

\* GedcomAnonymizer(keep_dates, keep_places)
init(kd, kp) ==
    [name_map |-> EmptyMap, place_map |-> EmptyMap, keep_dates |-> kd,
     keep_places |-> kp, person_counter |-> 1, place_counter |-> 1]

\* anonymize_name as it would be if the counter were not advanced
anonymize_name_no_increment(self, name) ==
    LET s1 == IF name \notin DOMAIN self.name_map
              THEN [self EXCEPT !.name_map =
                        Put(@, name, PersonPrefix \o str(self.person_counter))]
              ELSE self
    IN  [self |-> s1, ret |-> s1.name_map[name]]

anonymize_name(self, name) ==
    LET s1 == IF name \notin DOMAIN self.name_map
              THEN [self EXCEPT !.name_map =
                        Put(@, name, PersonPrefix \o str(self.person_counter)),
                                !.person_counter = @ + 1]
              ELSE self
    IN  [self |-> s1, ret |-> s1.name_map[name]]

\* anonymize_place as it would be without the keep_places early return
anonymize_place_ignores_keep(self, place) ==
    LET s1 == IF place \notin DOMAIN self.place_map
              THEN [self EXCEPT !.place_map =
                        Put(@, place, PlacePrefix \o str(self.place_counter)),
                                !.place_counter = @ + 1]
              ELSE self
    IN  [self |-> s1, ret |-> s1.place_map[place]]

\* anonymize_place as it would be without the membership test: every call
\* assigns the next placeholder
anonymize_place_remaps(self, place) ==
    IF self.keep_places THEN [self |-> self, ret |-> place]
    ELSE
    LET s1 == [self EXCEPT !.place_map =
                   Put(@, place, PlacePrefix \o str(self.place_counter)),
                           !.place_counter = @ + 1]
    IN  [self |-> s1, ret |-> s1.place_map[place]]

anonymize_place(self, place) ==
    IF self.keep_places THEN [self |-> self, ret |-> place]
    ELSE
    LET s1 == IF place \notin DOMAIN self.place_map
              THEN [self EXCEPT !.place_map =
                        Put(@, place, PlacePrefix \o str(self.place_counter)),
                                !.place_counter = @ + 1]
              ELSE self
    IN  [self |-> s1, ret |-> s1.place_map[place]]

\* re.match(r'\d{1,2}\s+\w{3}\s+\d{4}', date): some prefix of date has the shape
FullDateShape(date) ==
    \E a \in 1..2 : \E b \in 1..Len(date) : \E c \in 1..Len(date) :
        /\ AllIn(date, 1, a, Digits)
        /\ AllIn(date, a + 1, a + b, Space)
        /\ AllIn(date, a + b + 1, a + b + 3, WordChars)
        /\ AllIn(date, a + b + 4, a + b + 3 + c, Space)
        /\ AllIn(date, a + b + c + 4, a + b + c + 7, Digits)

\* re.match(r'(ABT|BEF|AFT|CAL|EST)\s+\d{4}', date)
QualifiedYearShape(date) ==
    \E q \in Qualifiers : \E b \in 1..Len(date) :
        /\ StartsWith(date, q)
        /\ AllIn(date, 4, 3 + b, Space)
        /\ AllIn(date, 4 + b, 7 + b, Digits)

\* re.match(r'\d{4}', date)
YearShape(date) == AllIn(date, 1, 4, Digits)

\* anonymize_date as it would be if the qualifier were dropped
anonymize_date_drops_qualifier(self, date) ==
    IF self.keep_dates THEN date
    ELSE IF FullDateShape(date) THEN FullDate
    ELSE IF QualifiedYearShape(date) THEN Year1900
    ELSE IF YearShape(date) THEN Year1900
    ELSE date

\* anonymize_date reads the engine and changes nothing: it is its return value
anonymize_date(self, date) ==
    IF self.keep_dates THEN date
    ELSE IF FullDateShape(date) THEN FullDate
    ELSE IF QualifiedYearShape(date) THEN split_first(date) \o SpaceYear1900
    ELSE IF YearShape(date) THEN Year1900
    ELSE date

\* match = re.match(<level digits> <white space> <optional @label@ and white
\* space> <tag word> <optional white space and value> <end>, line), line 88.
\* Every quantifier is greedy, and in this expression each one is followed
\* by something its own characters cannot start: the digits by white space,
\* the white space by "@" or a word character, the label's body by "@", the
\* tag by white space or the end.  Giving back a character can therefore
\* never turn a failure into a match, so the match, if any, is the one that
\* takes the longest run at each step; the white space after the tag is taken
\* whole and the value, any characters up to the end, then always succeeds.
\* The label group is tried first; when it fails the tag must start at the
\* same place, and "@" starts no tag.
NoMatch == [matched |-> FALSE]

match(ln) ==
    LET p1 == SpanEnd(ln, 1, Digits)        \* after (\d+)
        p2 == SpanEnd(ln, p1, Space)        \* after \s+
        x1 == SpanEnd(ln, p2 + 1, NotAt)    \* the closing "@" of a label
        x2 == SpanEnd(ln, x1 + 1, Space)    \* after the label's \s+
        hasx == /\ p2 <= Len(ln) /\ ln[p2] = "@"
                /\ x1 > p2 + 1 /\ x1 <= Len(ln) /\ ln[x1] = "@"
                /\ x2 > x1 + 1
        t0 == IF hasx THEN x2 ELSE p2       \* where (\w+) starts
        t1 == SpanEnd(ln, t0, WordChars)    \* after (\w+)
        v0 == SpanEnd(ln, t1, Space)        \* after the value's \s+
    IN  IF p1 > 1 /\ p2 > p1 /\ t1 > t0 /\ (t1 > Len(ln) \/ v0 > t1)
        THEN [matched |-> TRUE,
              level |-> SubSeq(ln, 1, p1 - 1),
              xref |-> IF hasx THEN SubSeq(ln, p2, x2 - 1) ELSE << >>,
              tag |-> SubSeq(ln, t0, t1 - 1),
              value |-> IF t1 > Len(ln) THEN << >> ELSE SubSeq(ln, v0, Len(ln))]
        ELSE NoMatch

\* anonymize_line as it would be without lines 84-85
strip_bom_absent(ln) == ln

\* if line.startswith(BOM): line = line[1:]
strip_bom(ln) == IF StartsWith(ln, <<BOM>>) THEN Tail(ln) ELSE ln

\* base = f"{level} " [+ xref] + tag
base_of(m) == m.level \o <<" ">> \o m.xref \o m.tag

\* the branches that replace a value by a fixed literal
fixed(base, value, literal) ==
    IF strip(value) # << >> THEN base \o <<" ">> \o literal ELSE base

\* the line that does not match, as it would be if the stripped BOM were put back
no_match_keeps_bom(self, raw, ln, n) ==
    [self |-> self, ret |-> raw,
     warning |-> IF n < WarnLines /\ strip(ln) # << >>
                 THEN <<n + 1, Slice(ln, 0, PreviewLen)>> ELSE NoWarning]

\* lines 89-94: raw is the argument, ln is raw after the BOM strip
no_match(self, raw, ln, n) ==
    [self |-> self, ret |-> ln,
     warning |-> IF n < WarnLines /\ strip(ln) # << >>
                 THEN <<n + 1, Slice(ln, 0, PreviewLen)>> ELSE NoWarning]

\* lines 96-155: the dispatch on the tag of a line that matched
dispatch(self, m) ==
    LET base == base_of(m)
        value == m.value
        tag == m.tag
    IN  IF tag = NAME THEN
            LET r == anonymize_name(self, value)
            IN  [self |-> r.self, ret |-> base \o <<" ">> \o r.ret, warning |-> NoWarning]
        ELSE IF tag = PLAC THEN
            LET r == anonymize_place(self, value)
            IN  [self |-> r.self, ret |-> base \o <<" ">> \o r.ret, warning |-> NoWarning]
        ELSE IF tag = DATE THEN
            [self |-> self, ret |-> base \o <<" ">> \o anonymize_date(self, value),
             warning |-> NoWarning]
        ELSE IF tag \in TextTags THEN
            [self |-> self, ret |-> fixed(base, value, AnonText), warning |-> NoWarning]
        ELSE IF tag \in NamePartTags THEN
            [self |-> self, ret |-> fixed(base, value, Anon), warning |-> NoWarning]
        ELSE IF tag \in AddressTags THEN
            [self |-> self, ret |-> fixed(base, value, Anon), warning |-> NoWarning]
        ELSE IF tag \in ContactTags THEN
            [self |-> self, ret |-> fixed(base, value, Anon), warning |-> NoWarning]
        ELSE IF tag = TITL /\ m.level = TitleLevel THEN
            [self |-> self, ret |-> fixed(base, value, Anon), warning |-> NoWarning]
        ELSE
            [self |-> self,
             ret |-> IF value # << >> THEN base \o <<" ">> \o value ELSE base,
             warning |-> NoWarning]

\* anonymize_line(line, line_number): the engine after the call, the line
\* returned and the diagnostic printed (NoWarning when none is)
anonymize_line(self, raw, n) ==
    LET ln == strip_bom(raw)
        m == match(ln)
    IN  IF ~m.matched THEN no_match(self, raw, ln, n) ELSE dispatch(self, m)

-----------------------------------------------------------------------------
(* The lines the engine is driven with                                      *)

Sp == <<" ">>

\* a well-formed line: level, tag and, when there is one, the value
Ln(level, tag, value) ==
    level \o Sp \o tag \o (IF value = << >> THEN << >> ELSE Sp \o value)

INDI == <<"I", "N", "D", "I">>
FAMC == <<"F", "A", "M", "C">>
Ptr == <<"@", "N", "1", "@">>

NameValues == {<< >>, <<"A">>, <<"C">>}
PlaceValues == {<< >>, <<"B">>}
DateSamples == {<< >>, <<"4", " ", "J", "U", "L", " ", "1", "7", "7", "6">>, <<"A", "B", "T", " ", "1", "8", "5", "0">>, <<"1", "9", "2", "3">>, <<"U", "n", "k", "n", "o", "w", "n">>}
PlainValues == {<< >>, <<"A">>}
PointerTags == {NOTE, FAMC}
PlainTags == {NOTE, CONC, GIVN, NICK, ADDR, CTRY, PHON, EMAIL, TITL, FAMC, INDI}
TitleLevels == {<<"0">>, <<"0", "1">>, <<"2">>, <<"1", "0">>}

WellFormed ==
    {Ln(<<"1">>, NAME, v) : v \in NameValues}
    \cup {Ln(<<"2">>, PLAC, v) : v \in PlaceValues}
    \cup {Ln(<<"2">>, DATE, v) : v \in DateSamples}
    \cup {Ln(<<"1">>, tg, v) : tg \in PlainTags, v \in PlainValues}
    \cup {Ln(<<"1">>, tg, Ptr) : tg \in PointerTags}
    \cup {Ln(lv, TITL, v) : lv \in TitleLevels, v \in {<< >>, <<"A">>}}

\* record lines with a label, and lines whose white space is not one space
Labelled ==
    {<<"0", " ", "@", "I", "1", "@", " ", "I", "N", "D", "I">>, <<"0", " ", "@", "N", "1", "@", " ", "N", "O", "T", "E", " ", "A">>, <<"0", " ", "@", "I", "1", "@", " ", " ", "I", "N", "D", "I">>, <<"1", " ", "@", "X", "@", " ", "N", "A", "M", "E", " ", "A">>,
     <<"1", " ", " ", "N", "A", "M", "E", "\t", "A">>, <<"1", " ", "S", "E", "X", " ", "M", " ">>, <<"1", " ", "N", "O", "T", "E", " ", " ">>, <<"2", "\t", "P", "L", "A", "C", " ", " ", "B">>}

\* lines the expression of line 88 does not match
Malformed ==
    {<< >>, <<" ">>, <<"A">>, <<"1">>, <<"1", " ", "@", "I", "1", "@">>, <<"1", "N", "A", "M", "E", " ", "A">>, <<"1", " ", "N", "A", "-", "M", "E", " ", "A">>, <<"1", " ", "@", "@", " ", "I", "N", "D", "I">>, <<"@", "I", "1", "@", " ", "I", "N", "D", "I">>,
     <<BOM>>, <<BOM, "A">>, <<BOM, " ">>}

\* lines that start with a byte-order mark
Marked ==
    {<<BOM>> \o <<"1", " ", "N", "A", "M", "E", " ", "A">>, <<BOM, BOM>> \o <<"1", " ", "N", "A", "M", "E", " ", "A">>, <<BOM>> \o <<"0", " ", "H", "E", "A", "D">>}

Lines == WellFormed \cup Labelled \cup Malformed \cup Marked

\* the lines that exercise the identity maps, with a few of the others
IdentityLines ==
    {Ln(<<"1">>, NAME, v) : v \in NameValues}
    \cup {Ln(<<"2">>, PLAC, v) : v \in PlaceValues}
    \cup {Ln(<<"2">>, DATE, v) : v \in {<< >>, <<"4", " ", "J", "U", "L", " ", "1", "7", "7", "6">>}}
    \cup {<<"1", " ", "@", "X", "@", " ", "N", "A", "M", "E", " ", "A">>, <<"1", " ", " ", "N", "A", "M", "E", "\t", "A">>, <<"2", "\t", "P", "L", "A", "C", " ", " ", "B">>,
          <<"1", " ", "N", "O", "T", "E", " ", "A">>, <<BOM>> \o <<"1", " ", "N", "A", "M", "E", " ", "A">>, <<"A">>}

\* line numbers on both sides of the diagnostic's limit
LineNumbers == {0, WarnLines}

-----------------------------------------------------------------------------
(* Spec: one engine, anonymize_line called on any line, any number of times *)

Self ==
    [name_map |-> name_map, place_map |-> place_map, keep_dates |-> keep_dates,
     keep_places |-> keep_places, person_counter |-> person_counter,
     place_counter |-> place_counter]

\* the engine's fields become those of the engine value e
Becomes(e) ==
    /\ name_map' = e.name_map
    /\ place_map' = e.place_map
    /\ keep_dates' = e.keep_dates
    /\ keep_places' = e.keep_places
    /\ person_counter' = e.person_counter
    /\ place_counter' = e.place_counter

\* the history after anonymize_line(raw): a value is recorded the first time a
\* line with the tag carries it (places only when they are anonymized)
Seen(seen, raw, tag, on) ==
    LET m == match(strip_bom(raw))
    IN  IF on /\ m.matched /\ m.tag = tag /\ \A k \in 1..Len(seen) : seen[k] # m.value
        THEN Append(seen, m.value) ELSE seen

NoFile ==
    /\ input_file = << >> /\ lines = << >> /\ i = 0 /\ anonymized_lines = << >>
    /\ passed = {} /\ output_file = << >> /\ run = 0 /\ first_output = << >>

Init ==
    /\ \E kd \in BOOLEAN, kp \in BOOLEAN :
          /\ name_map = init(kd, kp).name_map
          /\ place_map = init(kd, kp).place_map
          /\ keep_dates = init(kd, kp).keep_dates
          /\ keep_places = init(kd, kp).keep_places
          /\ person_counter = init(kd, kp).person_counter
          /\ place_counter = init(kd, kp).place_counter
    /\ line = << >> /\ result = << >> /\ warning = NoWarning
    /\ names_seen = << >> /\ places_seen = << >>
    /\ pc = "new"
    /\ NoFile

\* one call anonymize_line(raw, n) on the engine
Call(raw, n) ==
    LET r == anonymize_line(Self, raw, n)
    IN  /\ Becomes(r.self)
        /\ line' = raw
        /\ result' = r.ret
        /\ warning' = r.warning
        /\ names_seen' = Seen(names_seen, raw, NAME, TRUE)
        /\ places_seen' = Seen(places_seen, raw, PLAC, ~keep_places)
        /\ pc' = "line"
        /\ UNCHANGED <<input_file, lines, i, anonymized_lines, passed,
                       output_file, run, first_output>>

AnonymizeLine == \E raw \in IdentityLines, n \in LineNumbers : Call(raw, n)

Next == AnonymizeLine

Spec == Init /\ [][Next]_vars

-----------------------------------------------------------------------------
(* SpecDispatch: one engine, anonymize_line called on every kind of line,   *)
(* until MaxNames names and MaxPlaces places are mapped                     *)

MaxNames == 1

MaxPlaces == 1

AnonymizeAnyLine ==
    \E raw \in Lines, n \in LineNumbers :
        /\ Len(Seen(names_seen, raw, NAME, TRUE)) <= MaxNames
        /\ Len(Seen(places_seen, raw, PLAC, ~keep_places)) <= MaxPlaces
        /\ Call(raw, n)

NextDispatch == AnonymizeAnyLine

SpecDispatch == Init /\ [][NextDispatch]_vars

-----------------------------------------------------------------------------
(* SpecDate: anonymize_date applied to a date value                         *)

DateHeads == {<< >>, <<"1">>, <<"1", "2">>, <<"1", "2", "3">>, <<"1", "8", "5", "0">>, <<"1", "8", "5", "0", "1">>,
              ABT, EST, <<"a", "b", "t">>, <<"A", "B", "T", "X">>, <<"U", "n", "k">>}
DateSeps == {<< >>, Sp, <<" ", "\t">>}
DateMids == {<< >>, <<"J", "A", "N">>, <<"J", "_", "1">>, <<"1", "2", "3">>, <<"J", "A">>, <<"J", "A", "N", "U">>, <<"J", "-", "N">>}
DateTails == {<< >>, <<"1", "9", "0", "0">>, <<"1", "9", "0">>, <<"1", "9", "0", "0", "x">>, <<"B", "C">>}

\* the values anonymize_date is applied to: no value starts with white space,
\* as the value of a decomposed line never does
DateValues ==
    {d \in {h \o s1 \o m \o s2 \o tl : h \in DateHeads, s1 \in DateSeps, m \in DateMids,
                                     s2 \in DateSeps, tl \in DateTails} :
        d = << >> \/ d[1] \notin Space}

InitDate ==
    /\ \E kd \in BOOLEAN, kp \in BOOLEAN :
          /\ name_map = init(kd, kp).name_map
          /\ place_map = init(kd, kp).place_map
          /\ keep_dates = init(kd, kp).keep_dates
          /\ keep_places = init(kd, kp).keep_places
          /\ person_counter = init(kd, kp).person_counter
          /\ place_counter = init(kd, kp).place_counter
    /\ line \in DateValues
    /\ result = << >> /\ warning = NoWarning
    /\ names_seen = << >> /\ places_seen = << >>
    /\ pc = "new"
    /\ NoFile

\* result = anonymize_date(line)
AnonymizeDate ==
    /\ pc = "new"
    /\ result' = anonymize_date(Self, line)
    /\ pc' = "date"
    /\ UNCHANGED <<engine_vars, line, warning, names_seen, places_seen, input_file,
                   lines, i, anonymized_lines, passed, output_file, run, first_output>>

NextDate == AnonymizeDate

SpecDate == InitDate /\ [][NextDate]_vars

-----------------------------------------------------------------------------
(* SpecFile: anonymize_file on a text file, and a second run of the tool on *)
(* the file the first run wrote                                             *)

\* the lines of a document
MaxDocLen == 2

\* decoding with utf-8-sig: a byte-order mark at the start of the file is dropped
decode_sig(text) == IF StartsWith(text, <<BOM>>) THEN Tail(text) ELSE text

\* universal newlines of open(path, 'r'): "\r\n" and "\r" are read as "\n"
RECURSIVE universal(_)
universal(text) ==
    IF text = << >> THEN << >>
    ELSE IF Head(text) = "\r"
         THEN <<"\n">> \o universal(IF Len(text) > 1 /\ text[2] = "\n"
                                    THEN SubSeq(text, 3, Len(text)) ELSE Tail(text))
    ELSE <<Head(text)>> \o universal(Tail(text))

\* f.readlines(): the text cut after each "\n", the endings kept
RECURSIVE readlines(_)
readlines(text) ==
    IF text = << >> THEN << >>
    ELSE LET ends == {j \in 1..Len(text) : text[j] = "\n"}
             cut == IF ends = {} THEN Len(text) ELSE Min(ends)
         IN  <<SubSeq(text, 1, cut)>> \o readlines(SubSeq(text, cut + 1, Len(text)))

\* the loop body as it would be without its else branch: a blank line is skipped
loop_body_skips_blank(self, raw, idx) ==
    LET ln == rstrip_nl(raw)
    IN  IF strip(ln) # << >>
        THEN LET r == anonymize_line(self, ln, idx)
             IN  [self |-> r.self, appended |-> <<r.ret>>, called |-> TRUE,
                  arg |-> ln, warning |-> r.warning]
        ELSE [self |-> self, appended |-> << >>, called |-> FALSE,
              arg |-> ln, warning |-> NoWarning]

\* lines 167-174, one iteration: the engine afterwards, what is appended to
\* anonymized_lines, and whether anonymize_line was called (and on what)
loop_body(self, raw, idx) ==
    LET ln == rstrip_nl(raw)
    IN  IF strip(ln) # << >>
        THEN LET r == anonymize_line(self, ln, idx)
             IN  [self |-> r.self, appended |-> <<r.ret>>, called |-> TRUE,
                  arg |-> ln, warning |-> r.warning]
        ELSE [self |-> self, appended |-> <<ln>>, called |-> FALSE,
              arg |-> ln, warning |-> NoWarning]

\* lines 178-180: f.write(line + '\n') for each line
RECURSIVE written(_)
written(ls) == IF ls = << >> THEN << >> ELSE Head(ls) \o <<"\n">> \o written(Tail(ls))

\* physical lines of an input file, with their endings
FileLines ==
    {<<"\n">>, <<" ", " ", "\r", "\n">>, <<"0", " ", "@", "I", "1", "@", " ", "I", "N", "D", "I", "\n">>, <<"1", " ", "N", "A", "M", "E", " ", "A", "\n">>,
     <<"1", " ", "N", "A", "M", "E", " ", "C", "\r", "\n">>, <<"2", " ", "P", "L", "A", "C", " ", "B", "\n">>, <<"2", " ", "D", "A", "T", "E", "\n">>,
     <<"j", "u", "n", "k", "\n">>, <<BOM>> \o <<"0", " ", "H", "E", "A", "D", "\n">>, <<BOM, BOM>> \o <<"1", " ", "N", "A", "M", "E", " ", "A", "\n">>}

RECURSIVE Documents(_)
Documents(n) ==
    IF n = 0 THEN {<< >>}
    ELSE Documents(n - 1) \cup {d \o l : d \in Documents(n - 1), l \in FileLines}

\* the text without the ending of its last line
Unterminated(text) == rstrip_nl(text)

\* the files the tool is run on: up to MaxDocLen lines, the last one with or
\* without its ending
FileTexts ==
    Documents(MaxDocLen) \cup
    {Unterminated(d) : d \in {x \in Documents(MaxDocLen) :
                                x # << >> /\ rstrip_nl(SubSeq(x, Len(x), Len(x))) = << >>
                                /\ (Len(x) = 1 \/ x[Len(x) - 1] \notin {"\n", "\r"})}}

InitFile ==
    /\ \E kd \in BOOLEAN, kp \in BOOLEAN :
          /\ name_map = init(kd, kp).name_map
          /\ place_map = init(kd, kp).place_map
          /\ keep_dates = init(kd, kp).keep_dates
          /\ keep_places = init(kd, kp).keep_places
          /\ person_counter = init(kd, kp).person_counter
          /\ place_counter = init(kd, kp).place_counter
    /\ line = << >> /\ result = << >> /\ warning = NoWarning
    /\ names_seen = << >> /\ places_seen = << >>
    /\ input_file \in FileTexts
    /\ lines = << >> /\ i = 0 /\ anonymized_lines = << >> /\ passed = {}
    /\ output_file = << >> /\ first_output = << >>
    /\ run = 1
    /\ pc = "open"

\* the file this run reads: the input, or what the first run wrote
Source == IF run = 1 THEN input_file ELSE first_output

\* lines 161-166
ReadFile ==
    /\ pc = "open"
    /\ lines' = readlines(universal(decode_sig(Source)))
    /\ i' = 0
    /\ anonymized_lines' = << >>
    /\ pc' = "loop"
    /\ UNCHANGED <<engine_vars, call_vars, names_seen, places_seen, input_file,
                   passed, output_file, run, first_output>>

\* lines 167-174, one iteration of the loop
ProcessLine ==
    /\ pc = "loop" /\ i < Len(lines)
    /\ LET b == loop_body(Self, lines[i + 1], i)
       IN  /\ Becomes(b.self)
           /\ anonymized_lines' = anonymized_lines \o b.appended
           /\ IF b.called
              THEN /\ line' = b.arg
                   /\ result' = b.appended[1]
                   /\ warning' = b.warning
                   /\ passed' = passed \cup {i}
                   /\ names_seen' = Seen(names_seen, b.arg, NAME, TRUE)
                   /\ places_seen' = Seen(places_seen, b.arg, PLAC, ~keep_places)
              ELSE UNCHANGED <<line, result, warning, passed, names_seen, places_seen>>
    /\ i' = i + 1
    /\ UNCHANGED <<input_file, lines, output_file, pc, run, first_output>>

\* lines 176-186
WriteFile ==
    /\ pc = "loop" /\ i = Len(lines)
    /\ output_file' = written(anonymized_lines)
    /\ pc' = "done"
    /\ UNCHANGED <<engine_vars, call_vars, names_seen, places_seen, input_file,
                   lines, i, anonymized_lines, passed, run, first_output>>

\* lines 245-251 once more: a new engine with the same switches, run on the
\* file the first run wrote
RunAgain ==
    /\ pc = "done" /\ run = 1
    /\ Becomes(init(keep_dates, keep_places))
    /\ first_output' = output_file
    /\ run' = 2
    /\ pc' = "open"
    /\ lines' = << >> /\ i' = 0 /\ anonymized_lines' = << >> /\ passed' = {}
    /\ output_file' = << >>
    /\ line' = << >> /\ result' = << >> /\ warning' = NoWarning
    /\ names_seen' = << >> /\ places_seen' = << >>
    /\ UNCHANGED input_file

NextFile == ReadFile \/ ProcessLine \/ WriteFile \/ RunAgain

SpecFile == InitFile /\ [][NextFile]_vars

-----------------------------------------------------------------------------
(* Properties of the engine, checked under Spec and SpecDispatch             *)

\* the last call's line as the expression of line 88 decomposes it
M == match(strip_bom(line))

\* anonymize_line has been called and its line matched the grammar
Matched == pc = "line" /\ M.matched

\* the decomposed value of the line the last call returned
ResultValue == match(result).value

\* the 1-based position of v in a sequence without repetitions
Rank(seen, v) == CHOOSE k \in 1..Len(seen) : seen[k] = v

\* no two keys of the map share a placeholder
Injective(m) == \A v \in DOMAIN m : \A w \in DOMAIN m : v # w => m[v] # m[w]

\* C1: the value emitted for a NAME line is "Person k", k the rank of the
\* line's value among the distinct NAME values in order of first occurrence;
\* likewise "Place k" for PLAC lines when places are not kept; so equal values
\* get equal placeholders and distinct values never share one.
C1_FirstOccurrenceNumbering ==
    /\ Matched /\ M.tag = NAME =>
          result = base_of(M) \o Sp \o PersonPrefix \o str(Rank(names_seen, M.value))
    /\ Matched /\ M.tag = PLAC /\ ~keep_places =>
          result = base_of(M) \o Sp \o PlacePrefix \o str(Rank(places_seen, M.value))
    /\ DOMAIN name_map = {names_seen[k] : k \in 1..Len(names_seen)}
    /\ \A v \in DOMAIN name_map : name_map[v] = PersonPrefix \o str(Rank(names_seen, v))
    /\ ~keep_places =>
          /\ DOMAIN place_map = {places_seen[k] : k \in 1..Len(places_seen)}
          /\ \A v \in DOMAIN place_map :
                place_map[v] = PlacePrefix \o str(Rank(places_seen, v))
    /\ Injective(name_map) /\ Injective(place_map)

\* a NAME line repeats the second of three names seen, and two places are mapped
C1_Witness ==
    /\ Matched /\ M.tag = NAME
    /\ Len(names_seen) = 3 /\ Rank(names_seen, M.value) = 2
    /\ Len(places_seen) = 2

\* the value the dispatch table substitutes for the last line's value
SubstitutedValue ==
    IF M.tag = NAME THEN name_map[M.value]
    ELSE IF M.tag = PLAC THEN (IF keep_places THEN M.value ELSE place_map[M.value])
    ELSE IF M.tag = DATE THEN anonymize_date(Self, M.value)
    ELSE IF M.tag \in TextTags THEN (IF strip(M.value) # << >> THEN AnonText ELSE << >>)
    ELSE IF M.tag \in NamePartTags \cup AddressTags \cup ContactTags
         \/ (M.tag = TITL /\ M.level = TitleLevel)
         THEN (IF strip(M.value) # << >> THEN Anon ELSE << >>)
    ELSE M.value

\* C3: for every line that matches, whatever its tag and configuration, the
\* line returned is level, " ", xref, tag, followed by " " and the substituted
\* value only when that value is not empty: an empty substituted value leaves
\* no trailing space, for NAME, PLAC and DATE like for any other tag.
C3_Reassembly ==
    Matched =>
        result = base_of(M) \o (IF SubstitutedValue = << >> THEN << >>
                                ELSE Sp \o SubstitutedValue)

\* v is a pointer to another record: "@", characters other than "@", "@"
IsPointer(v) ==
    /\ Len(v) >= 3 /\ v[1] = "@" /\ v[Len(v)] = "@"
    /\ \A k \in 2..(Len(v) - 1) : v[k] # "@"

\* C4: a matching line whose value is a pointer @...@, whatever its tag, is
\* returned with that pointer as its value, and the xref label of a record
\* line is returned verbatim.
C4_PointersPreserved ==
    Matched =>
        /\ match(result).matched
        /\ match(result).xref = M.xref
        /\ IsPointer(M.value) => ResultValue = M.value

\* C5: with keep_dates the value of every DATE line is returned unchanged;
\* with keep_places the value of every PLAC line is returned unchanged and the
\* place map stays empty with its counter at 1; a NAME line's value is
\* replaced by its placeholder whatever the switches are.
C5_KeepSwitches ==
    /\ Matched /\ M.tag = DATE /\ keep_dates => ResultValue = M.value
    /\ keep_places => place_map = EmptyMap /\ place_counter = 1
    /\ Matched /\ M.tag = PLAC /\ keep_places => ResultValue = M.value
    /\ Matched /\ M.tag = NAME =>
          /\ ResultValue = name_map[M.value]
          /\ \E k \in 1..(person_counter - 1) : ResultValue = PersonPrefix \o str(k)

\* a place is kept while dates are kept too and a name has been replaced
C5_Witness ==
    /\ Matched /\ keep_places /\ keep_dates
    /\ M.tag = PLAC /\ M.value = <<"B">>
    /\ names_seen # << >>

\* C7 as stated: a line that does not match is returned as it was passed,
\* character for character, also when it begins with a byte-order mark, and
\* the maps and counters are left alone.
C7_ReturnsArgument ==
    [][(pc' = "line" /\ ~match(strip_bom(line')).matched) =>
          (result' = line' /\ UNCHANGED engine_vars)]_vars

\* C7 amended: a line that does not match is returned as it is after one
\* leading byte-order mark, if any, has been removed, and otherwise character
\* for character; the maps and counters are left alone, whether or not the
\* diagnostic is printed.
C7_PassThrough ==
    [][(pc' = "line" /\ ~match(strip_bom(line')).matched) =>
          (result' = strip_bom(line') /\ UNCHANGED engine_vars)]_vars

\* a marked line that does not match was passed after a name had been mapped,
\* and the diagnostic was printed
C7_Witness ==
    /\ pc = "line" /\ ~M.matched
    /\ StartsWith(line, <<BOM>>) /\ Len(line) > 1
    /\ warning # NoWarning
    /\ name_map # EmptyMap

\* int(level) of a string of decimal digits
RECURSIVE to_int(_)
to_int(ds) ==
    IF ds = << >> THEN 0
    ELSE 10 * to_int(SubSeq(ds, 1, Len(ds) - 1))
         + (CHOOSE d \in 0..9 : DigitChar(d) = ds[Len(ds)])

\* C8: a TITL line is anonymized exactly when its level, a non-negative
\* integer, equals 1: then a value that is not blank becomes "[anonymized]"
\* and a blank one leaves the tag alone; at any other level the value is
\* passed through.
C8_TitleAtLevelOne ==
    Matched /\ M.tag = TITL =>
        result = IF to_int(M.level) = 1
                 THEN fixed(base_of(M), M.value, Anon)
                 ELSE base_of(M) \o (IF M.value = << >> THEN << >> ELSE Sp \o M.value)

\* the placeholders of a map are exactly "<Kind> 1" .. "<Kind> n"
Numbered(m, prefix) ==
    {m[k] : k \in DOMAIN m} = {prefix \o str(j) : j \in 1..Cardinality(DOMAIN m)}

C9_Inv ==
    /\ person_counter = Cardinality(DOMAIN name_map) + 1
    /\ place_counter = Cardinality(DOMAIN place_map) + 1
    /\ Numbered(name_map, PersonPrefix)
    /\ Numbered(place_map, PlacePrefix)

C9_Step ==
    /\ \A k \in DOMAIN name_map : k \in DOMAIN name_map' /\ name_map'[k] = name_map[k]
    /\ \A k \in DOMAIN place_map : k \in DOMAIN place_map' /\ place_map'[k] = place_map[k]
    /\ person_counter' >= person_counter
    /\ place_counter' >= place_counter
    /\ ~(match(strip_bom(line')).matched /\ match(strip_bom(line')).tag = NAME) =>
          UNCHANGED <<name_map, person_counter>>
    /\ ~(match(strip_bom(line')).matched /\ match(strip_bom(line')).tag = PLAC) =>
          UNCHANGED <<place_map, place_counter>>

\* C9: an entry of either map is never removed or remapped, no counter
\* decreases, each counter is its map's size plus one, the placeholders of a
\* map are exactly "<Kind> 1" .. "<Kind> n", and only a NAME line changes the
\* name map or its counter, only a PLAC line the place map or its counter.
C9_MapsOnlyGrow == []C9_Inv /\ [][C9_Step]_vars

\* both maps are full and the last line touched neither
C9_Witness ==
    /\ Matched /\ M.tag = DATE
    /\ Cardinality(DOMAIN name_map) = 3
    /\ Cardinality(DOMAIN place_map) = 2

-----------------------------------------------------------------------------
(* Properties of anonymize_date, checked under SpecDate                     *)

\* rule 1 as the claim words it: 1-2 digits, white space, a token of three
\* characters of Token, white space, 4 digits, at the start of d
Rule1(d, Token) ==
    LET a == SpanEnd(d, 1, Digits)
        b == SpanEnd(d, a, Space)
        c == SpanEnd(d, b + 3, Space)
    IN  /\ a \in {2, 3}
        /\ b > a
        /\ AllIn(d, b, b + 2, Token)
        /\ c > b + 3
        /\ AllIn(d, c, c + 3, Digits)

\* rule 2: the qualifier q, white space, 4 digits, at the start of d
Rule2(d, q) ==
    /\ StartsWith(d, q)
    /\ SpanEnd(d, 4, Space) > 4
    /\ AllIn(d, SpanEnd(d, 4, Space), SpanEnd(d, 4, Space) + 3, Digits)

\* rule 3: 4 digits at the start of d
Rule3(d) == Len(d) >= 4 /\ \A k \in 1..4 : d[k] \in Digits

\* the value the four rules give for d, the first that applies
ByRules(d, Token) ==
    IF Rule1(d, Token) THEN FullDate
    ELSE IF \E q \in Qualifiers : Rule2(d, q)
         THEN (CHOOSE q \in Qualifiers : Rule2(d, q)) \o Sp \o Year1900
    ELSE IF Rule3(d) THEN Year1900
    ELSE d

\* C6 as stated: without keep_dates the first rule that applies decides, the
\* token of rule 1 being three letters; a value no rule applies to is returned
\* unchanged.
C6_ThreeLetterToken ==
    pc = "date" /\ ~keep_dates => result = ByRules(line, Letters)

\* C6 amended: the same, the token of rule 1 being three word characters
\* (letters, digits or underscores).
C6_FirstMatchingRule ==
    pc = "date" /\ ~keep_dates => result = ByRules(line, WordChars)

\* a full date whose middle token is not three letters was replaced
C6_Witness ==
    /\ pc = "date" /\ ~keep_dates
    /\ Rule1(line, WordChars) /\ ~Rule1(line, Letters)
    /\ result = FullDate /\ line # FullDate

-----------------------------------------------------------------------------
(* Properties of anonymize_file, checked under SpecFile                     *)

\* input line k (1-based) without its ending, as the loop sees it
Stripped(k) == rstrip_nl(lines[k])

\* output line k comes from input line k: a blank line is copied and is not
\* passed to anonymize_line; any other line is passed to it, and what comes
\* back has the line's level, label and tag, or is the line itself (less a
\* byte-order mark) when the line does not match
FromInput(k) ==
    IF strip(Stripped(k)) = << >>
    THEN anonymized_lines[k] = Stripped(k) /\ (k - 1) \notin passed
    ELSE /\ (k - 1) \in passed
         /\ LET m == match(strip_bom(Stripped(k)))
                o == match(anonymized_lines[k])
            IN  IF m.matched THEN o.matched /\ base_of(o) = base_of(m)
                ELSE anonymized_lines[k] = strip_bom(Stripped(k))

\* C2: anonymize_file emits exactly as many lines as it read, in the same
\* order, output line k made from input line k; a blank line is emitted as it
\* is without being passed to anonymize_line; an empty input gives an empty
\* output and leaves both maps empty.
C2_LineForLine ==
    /\ pc \in {"loop", "done"} =>
          /\ Len(anonymized_lines) = i
          /\ i <= Len(lines)
          /\ \A k \in 1..i : FromInput(k)
    /\ pc = "done" =>
          /\ i = Len(lines)
          /\ Len(readlines(output_file)) = Len(lines)
          /\ \A k \in 1..Len(lines) :
                readlines(output_file)[k] = anonymized_lines[k] \o <<"\n">>
    /\ pc = "done" /\ lines = << >> =>
          output_file = << >> /\ name_map = EmptyMap /\ place_map = EmptyMap

\* a file of a white-space-only line and a line that was passed to the engine
\* has been written
C2_Witness ==
    /\ pc = "done" /\ run = 1 /\ Len(lines) = 2
    /\ strip(Stripped(1)) = << >> /\ Stripped(1) # << >>
    /\ passed = {1}

\* the lines the first run read
FirstLines == readlines(universal(decode_sig(input_file)))

\* no line the first run read begins with two byte-order marks
NoDoubleMark ==
    \A k \in 1..Len(FirstLines) : ~StartsWith(FirstLines[k], <<BOM, BOM>>)

\* C10 as stated: a second run, with a new engine and the same switches, on
\* the output of the first run writes the same lines again, for any input.
C10_Idempotent == pc = "done" /\ run = 2 => output_file = first_output

\* C10 amended: the same, for any input of which no line, as read, begins
\* with two or more byte-order marks.
C10_IdempotentUnlessDoubleMark ==
    pc = "done" /\ run = 2 /\ NoDoubleMark => output_file = first_output

\* the second run has rewritten a two-line file in which the first run
\* replaced a name and removed a byte-order mark
C10_Witness ==
    /\ pc = "done" /\ run = 2 /\ NoDoubleMark
    /\ Len(lines) = 2
    /\ name_map # EmptyMap
    /\ \E k \in 1..Len(FirstLines) : StartsWith(FirstLines[k], <<BOM>>)
    /\ output_file = first_output

====
